---- MODULE Spec2Model ----
(***************************************************************************)
(* Tour / transfer administration forms: the zod schemas of the tour       *)
(* creation form (app/tours/add-tour/page_old.tsx), the tour edit form     *)
(* (app/tours/[id]/page.tsx) and the transfer creation form                *)
(* (app/transfers/add-transfer/page.tsx), and the validate-then-save       *)
(* state machine of the pages that own them.                               *)
(*                                                                         *)
(* Text values are sequences of one-character strings, numbers are records *)
(* that keep JavaScript's NaN and undefined apart from the integers, and a *)
(* draft is a function from the field path to the field's value.           *)
(***************************************************************************)
EXTENDS Integers, Sequences, FiniteSets, TLC

----------------------------------------------------------------------------
(* Bounds of the model *)

\* number of field overrides applied to a filled-in draft in SpecV
MaxEdits == 2
\* image uploads that may await their response at once
MaxUploads == 2

\* GET requests for reviews that may await their response at once
MaxReviewRequests == 2
\* DELETE requests for a review that may await their response at once
MaxDeleteRequests == 1

\* handleShowErrors runs that may wait in their 100 ms delay at once
MaxRuns == 2
\* create/update requests that may await their response at once
MaxInflight == 2

----------------------------------------------------------------------------
(* JavaScript values *)

Num(n) == [t |-> "number", n |-> n]
NaN == [t |-> "NaN", n |-> 0]
UndefinedNum == [t |-> "undefined", n |-> 0]
\* an absent string-typed property
Undefined == <<"undefined">>

IsNumber(x) == x.t = "number"
\* x is truthy as a JavaScript number (not undefined, NaN or 0)
TruthyNum(x) == x.t = "number" /\ x.n # 0
\* s is truthy as a JavaScript string (not undefined, not "")
TruthyStr(s) == s # Undefined /\ s # <<>>

Rep(c, n) == [i \in 1..n |-> c]

IsSpace(c) == c = " "

RECURSIVE TrimStart(_)
TrimStart(s) ==
  IF s = <<>> THEN <<>>
  ELSE IF IsSpace(Head(s)) THEN TrimStart(Tail(s)) ELSE s

RECURSIVE TrimEnd(_)
TrimEnd(s) ==
  IF s = <<>> THEN <<>>
  ELSE IF IsSpace(s[Len(s)]) THEN TrimEnd(SubSeq(s, 1, Len(s) - 1)) ELSE s

\* String.prototype.trim
Trim(s) == TrimEnd(TrimStart(s))

LowerOf(c) ==
  CASE c = "A" -> "a"
    [] c = "B" -> "b"
    [] c = "C" -> "c"
    [] OTHER -> c

\* String.prototype.toLowerCase
ToLowerCase(s) == [i \in 1..Len(s) |-> LowerOf(s[i])]

\* the characters of the class [a-z0-9-]
SlugChars == {"a", "b", "c", "p", "x", "y", "0", "1", "4", "-"}

\* /^[a-z0-9-]*$/.test(s)
MatchesSlugRegex(s) == \A i \in 1..Len(s) : s[i] \in SlugChars

\* the elements of s whose index passes Keep, in order
SelectIndex(s, Keep(_)) ==
  LET kept == SelectSeq([i \in 1..Len(s) |-> i], Keep)
  IN [n \in 1..Len(kept) |-> s[kept[n]]]

\* position i lies in a match of /<[^>]*>/, given the positions of the
\* "<" and of the ">" of the text: a "<" at or before i that no ">" closes
\* before i, and a ">" at or after i
InTag(opens, closes, i) ==
  /\ \E k \in opens : k <= i /\ \A m \in closes : m < k \/ m >= i
  /\ \E j \in closes : j >= i

\* stripHtmlTags of @/lib/htmlValidation: every <...> tag is removed
stripHtmlTags(s) ==
  LET opens == {k \in 1..Len(s) : s[k] = "<"}
      closes == {j \in 1..Len(s) : s[j] = ">"}
  IN SelectIndex(s, LAMBDA i : ~InTag(opens, closes, i))

\* .replace(/[^a-z0-9 -]/g, "")
KeepSlugChars(s) == SelectSeq(s, LAMBDA c : c \in SlugChars \/ c = " ")

\* .replace(/\s+/g, "-"): every run of white space becomes one hyphen
SpacesToHyphen(s) ==
  LET first == SelectIndex(s, LAMBDA i : ~(IsSpace(s[i]) /\ i > 1
                                            /\ IsSpace(s[i - 1])))
  IN [i \in 1..Len(first) |-> IF IsSpace(first[i]) THEN "-" ELSE first[i]]

\* runs of hyphens left as they are
CollapseHyphens_Off(s) == s

\* .replace(/-+/g, "-"): every run of hyphens becomes one hyphen
CollapseHyphens(s) ==
  SelectIndex(s, LAMBDA i : ~(s[i] = "-" /\ i > 1 /\ s[i - 1] = "-"))

RECURSIVE StripLeadingHyphens(_)
StripLeadingHyphens(s) ==
  IF s # <<>> /\ Head(s) = "-" THEN StripLeadingHyphens(Tail(s)) ELSE s

RECURSIVE StripTrailingHyphens(_)
StripTrailingHyphens(s) ==
  IF s # <<>> /\ s[Len(s)] = "-"
  THEN StripTrailingHyphens(SubSeq(s, 1, Len(s) - 1)) ELSE s

\* the slug the auto-generate effect derives from a title
GenerateSlug(title) ==
  StripTrailingHyphens(StripLeadingHyphens(CollapseHyphens(
    SpacesToHyphen(KeepSlugChars(Trim(ToLowerCase(title)))))))

----------------------------------------------------------------------------
(* zod: the issues of the per-field rules.  An issue is fatal when zod      *)
(* aborts the value (wrong type, missing, not in the enum); a failed check  *)
(* (min, max, regex, refine) leaves the value dirty and parsing goes on.    *)

Issue(path, fatal) == [path |-> path, fatal |-> fatal]

\* z.string().min(lo).max(hi)
ZStringMinMax(path, v, lo, hi) ==
  IF v = Undefined THEN {Issue(path, TRUE)}
  ELSE IF Len(v) < lo \/ Len(v) > hi THEN {Issue(path, FALSE)} ELSE {}

\* z.string().min(lo)
ZStringMin(path, v, lo) ==
  IF v = Undefined THEN {Issue(path, TRUE)}
  ELSE IF Len(v) < lo THEN {Issue(path, FALSE)} ELSE {}

\* z.string().optional()
ZStringOptional(path, v) == {}

\* the slug rule without .optional().or(z.literal(""))
ZSlug_Required(path, v) ==
  IF v = Undefined THEN {Issue(path, TRUE)}
  ELSE IF v # <<>> /\ MatchesSlugRegex(v) THEN {} ELSE {Issue(path, FALSE)}

\* z.string().regex(/^[a-z0-9-]*$/).optional().or(z.literal(""))
ZSlug(path, v) ==
  IF v = Undefined \/ v = <<>> THEN {}
  ELSE IF MatchesSlugRegex(v) THEN {} ELSE {Issue(path, FALSE)}

\* z.string().refine((val) => stripHtmlTags(val).length >= lo)
ZRichText(path, v, lo) ==
  IF v = Undefined THEN {Issue(path, TRUE)}
  ELSE IF Len(stripHtmlTags(v)) >= lo THEN {} ELSE {Issue(path, FALSE)}

\* z.string().refine((val) => !val || stripHtmlTags(val).length >= lo)
ZRichTextOrEmpty(path, v, lo) ==
  IF v = Undefined THEN {Issue(path, TRUE)}
  ELSE IF v = <<>> \/ Len(stripHtmlTags(v)) >= lo THEN {}
       ELSE {Issue(path, FALSE)}

\* z.number().min(lo); z.number() rejects NaN and undefined
ZNumberMin(path, v, lo) ==
  IF ~IsNumber(v) THEN {Issue(path, TRUE)}
  ELSE IF v.n < lo THEN {Issue(path, FALSE)} ELSE {}

\* an optional number rule taking NaN for an absent value
ZNumberMinOptional_NaNAbsent(path, v, lo) ==
  IF ~IsNumber(v) THEN {} ELSE ZNumberMin(path, v, lo)

\* z.number().min(lo).optional()
ZNumberMinOptional(path, v, lo) ==
  IF v = UndefinedNum THEN {} ELSE ZNumberMin(path, v, lo)

\* z.number().min(lo).max(hi).optional()
ZNumberMinMaxOptional(path, v, lo, hi) ==
  IF v = UndefinedNum THEN {}
  ELSE IF ~IsNumber(v) THEN {Issue(path, TRUE)}
  ELSE IF v.n < lo \/ v.n > hi THEN {Issue(path, FALSE)} ELSE {}

\* z.number().optional()
ZNumberOptional(path, v) ==
  IF v = UndefinedNum \/ IsNumber(v) THEN {} ELSE {Issue(path, TRUE)}

\* z.enum(values)
ZEnum(path, v, values) == IF v \in values THEN {} ELSE {Issue(path, TRUE)}

\* the path of element i (1-based here, 0-based in zod) of an array field
ItemPath(path, i) == path \o "." \o ToString(i - 1)

\* z.array(z.string().min(1)).min(1)
ZStringArrayMin1(path, v) ==
  {Issue(ItemPath(path, i), FALSE) : i \in {j \in 1..Len(v) : Len(v[j]) < 1}}
    \cup (IF Len(v) < 1 THEN {Issue(path, FALSE)} ELSE {})

\* z.array(z.string()).min(1)
ZArrayMin1(path, v) == IF Len(v) < 1 THEN {Issue(path, FALSE)} ELSE {}

\* z.array(z.object({question: z.string().min(1), answer: z.string().min(1)}))
ZFaq(path, v) ==
  UNION {ZStringMin(ItemPath(path, i) \o ".question", v[i].question, 1)
           \cup ZStringMin(ItemPath(path, i) \o ".answer", v[i].answer, 1)
         : i \in 1..Len(v)}

TourLabels == {"Recommended", "Popular", "Best Value", "Best seller", "None"}
EditLabels == {"Recommended", "Popular", "Best Value", "Best Seller", "None"}
TourTypes == {"co-tour", "private"}
TransferTypes == {"Van", "Van + Ferry", "Private"}
Periods == {"Half-Day", "Full-Day"}
PickupOptions == {"admin", "user"}

\* tourSchema of the tour creation form, the z.object part
TourFieldIssues(d) ==
  ZStringMinMax("title", d["title"], 20, 100)
    \cup ZSlug("slug", d["slug"])
    \cup ZStringMin("image", d["image"], 1)
    \cup ZStringArrayMin1("tags", d["tags"])
    \cup ZStringMinMax("description", d["description"], 50, 110)
    \cup ZEnum("type", d["type"], TourTypes)
    \cup ZStringMin("duration", d["duration"], 1)
    \cup ZEnum("period", d["period"], Periods)
    \cup ZNumberMin("bookedCount", d["bookedCount"], 0)
    \cup ZNumberMin("oldPrice", d["oldPrice"], 0)
    \cup ZNumberMin("newPrice", d["newPrice"], 0)
    \cup ZNumberMin("childPrice", d["childPrice"], 0)
    \cup ZNumberMin("minimumPerson", d["minimumPerson"], 1)
    \cup ZNumberMin("maximumPerson", d["maximumPerson"], 1)
    \cup ZStringOptional("vehicle", d["vehicle"])
    \cup ZNumberOptional("seatCapacity", d["seatCapacity"])
    \cup ZArrayMin1("departureTimes", d["departureTimes"])
    \cup ZEnum("label", d["label"], TourLabels)
    \cup ZRichText("details.about", d["details.about"], 100)
    \cup ZRichText("details.itinerary", d["details.itinerary"], 100)
    \cup ZRichText("details.pickupLocation", d["details.pickupLocation"], 10)
    \cup ZRichTextOrEmpty("details.pickupGuidelines",
                          d["details.pickupGuidelines"], 15)
    \cup ZRichText("details.note", d["details.note"], 10)
    \cup ZFaq("details.faq", d["details.faq"])

\* tourSchema of the tour edit form, the z.object part
EditFieldIssues(d) ==
  ZStringMinMax("title", d["title"], 20, 100)
    \cup ZSlug("slug", d["slug"])
    \cup ZStringMin("image", d["image"], 1)
    \cup ZStringArrayMin1("tags", d["tags"])
    \cup ZStringMinMax("description", d["description"], 50, 200)
    \cup ZEnum("type", d["type"], TourTypes)
    \cup ZStringMin("duration", d["duration"], 1)
    \cup ZEnum("period", d["period"], Periods)
    \cup ZNumberMin("bookedCount", d["bookedCount"], 0)
    \cup ZNumberMinMaxOptional("rating", d["rating"], 0, 5)
    \cup ZNumberMinOptional("reviewCount", d["reviewCount"], 0)
    \cup ZNumberMin("oldPrice", d["oldPrice"], 0)
    \cup ZNumberMin("newPrice", d["newPrice"], 0)
    \cup ZNumberMin("childPrice", d["childPrice"], 0)
    \cup ZNumberMin("minimumPerson", d["minimumPerson"], 1)
    \cup ZNumberMin("maximumPerson", d["maximumPerson"], 1)
    \cup ZStringOptional("vehicle", d["vehicle"])
    \cup ZNumberOptional("seatCapacity", d["seatCapacity"])
    \cup ZArrayMin1("departureTimes", d["departureTimes"])
    \cup ZEnum("label", d["label"], EditLabels)
    \cup ZStringMin("details.about", d["details.about"], 100)
    \cup ZStringMin("details.itinerary", d["details.itinerary"], 50)
    \cup ZStringArrayMin1("details.pickupLocations", d["details.pickupLocations"])
    \cup ZStringOptional("details.pickupGuidelines",
                         d["details.pickupGuidelines"])
    \cup ZStringArrayMin1("details.notes", d["details.notes"])
    \cup ZStringArrayMin1("details.includes", d["details.includes"])
    \cup ZFaq("details.faq", d["details.faq"])

\* transferSchema, the z.object part
TransferFieldIssues(d) ==
  ZStringMinMax("title", d["title"], 20, 100)
    \cup ZSlug("slug", d["slug"])
    \cup ZStringMin("image", d["image"], 1)
    \cup ZStringArrayMin1("tags", d["tags"])
    \cup ZStringMinMax("description", d["description"], 50, 110)
    \cup ZEnum("type", d["type"], TransferTypes)
    \cup ZStringOptional("vehicle", d["vehicle"])
    \cup ZStringMin("from", d["from"], 2)
    \cup ZStringMin("to", d["to"], 2)
    \cup ZStringMin("duration", d["duration"], 1)
    \cup ZNumberMin("bookedCount", d["bookedCount"], 0)
    \cup ZNumberMinMaxOptional("rating", d["rating"], 0, 5)
    \cup ZNumberMinOptional("reviewCount", d["reviewCount"], 0)
    \cup ZNumberMin("oldPrice", d["oldPrice"], 0)
    \cup ZNumberMin("newPrice", d["newPrice"], 0)
    \cup ZNumberMinOptional("childPrice", d["childPrice"], 0)
    \cup ZNumberMinOptional("minimumPerson", d["minimumPerson"], 1)
    \cup ZNumberMinOptional("maximumPerson", d["maximumPerson"], 1)
    \cup ZNumberMin("seatCapacity", d["seatCapacity"], 1)
    \cup ZArrayMin1("departureTimes", d["departureTimes"])
    \cup ZEnum("label", d["label"], TourLabels)
    \cup ZRichText("details.about", d["details.about"], 100)
    \cup ZRichText("details.itinerary", d["details.itinerary"], 100)
    \cup ZEnum("details.pickupOption", d["details.pickupOption"], PickupOptions)
    \cup ZStringOptional("details.pickupLocation", d["details.pickupLocation"])
    \cup ZStringOptional("details.dropOffLocation",
                         d["details.dropOffLocation"])
    \cup ZRichTextOrEmpty("details.pickupGuidelines",
                          d["details.pickupGuidelines"], 15)
    \cup ZRichText("details.note", d["details.note"], 10)
    \cup ZFaq("details.faq", d["details.faq"])

----------------------------------------------------------------------------
(* zod: the .refine chain.  Every refinement of the chain runs, in order,   *)
(* unless the z.object part aborted; each adds one issue on its own path.   *)

\* the comparison of the newPrice refinement turned round
NewPriceRefine_Reversed(d) ==
  IF d["oldPrice"].n > d["newPrice"].n THEN {"newPrice"} ELSE {}

\* tourSchema.refine #1 (all three schemas): newPrice > oldPrice
NewPriceRefine(d) ==
  IF d["newPrice"].n > d["oldPrice"].n THEN {"newPrice"} ELSE {}

\* the maximumPerson refinement letting equal bounds through
TourMaximumPersonRefine_Strict(d) ==
  IF d["type"] # "private" /\ d["maximumPerson"].n < d["minimumPerson"].n
  THEN {"maximumPerson"} ELSE {}

\* tourSchema.refine #2: maximumPerson <= minimumPerson unless private
TourMaximumPersonRefine(d) ==
  IF d["type"] # "private" /\ d["maximumPerson"].n <= d["minimumPerson"].n
  THEN {"maximumPerson"} ELSE {}

\* tourSchema.refine #3 (creation form only): vehicle of a private tour
TourVehicleRefine(d) ==
  IF d["type"] = "private"
     /\ (~TruthyStr(d["vehicle"]) \/ Trim(d["vehicle"]) = <<>>)
  THEN {"vehicle"} ELSE {}

\* transferSchema.refine #2: fields required unless Private
TransferRequiredRefine(d) ==
  IF d["type"] # "Private"
  THEN IF d["childPrice"] # UndefinedNum
          /\ d["minimumPerson"] # UndefinedNum
          /\ d["maximumPerson"] # UndefinedNum
       THEN {} ELSE {"type"}
  ELSE {}

\* the transfer maximumPerson refinement letting equal bounds through
TransferMaximumPersonRefine_Strict(d) ==
  IF d["type"] # "Private"
     /\ TruthyNum(d["maximumPerson"])
     /\ TruthyNum(d["minimumPerson"])
     /\ d["maximumPerson"].n < d["minimumPerson"].n
  THEN {"maximumPerson"} ELSE {}

\* transferSchema.refine #3: maximumPerson <= minimumPerson unless Private
TransferMaximumPersonRefine(d) ==
  IF d["type"] # "Private"
     /\ TruthyNum(d["maximumPerson"])
     /\ TruthyNum(d["minimumPerson"])
     /\ d["maximumPerson"].n <= d["minimumPerson"].n
  THEN {"maximumPerson"} ELSE {}

\* the from/to refinement comparing without toLowerCase
FromToRefine_CaseSensitive(d) ==
  IF d["from"] = d["to"] THEN {"to"} ELSE {}

\* transferSchema.refine #4: from and to differ, case-insensitively
FromToRefine(d) ==
  IF ToLowerCase(d["from"]) = ToLowerCase(d["to"]) THEN {"to"} ELSE {}

\* transferSchema.refine #5: pickup location of an admin-defined pickup
PickupLocationRefine(d) ==
  IF d["details.pickupOption"] = "admin"
  THEN IF TruthyStr(d["details.pickupLocation"])
          /\ Len(d["details.pickupLocation"]) >= 10
       THEN {} ELSE {"details.pickupLocation"}
  ELSE {}

\* transferSchema.refine #6: pickup guidelines are always required
PickupGuidelinesRefine(d) ==
  IF TruthyStr(d["details.pickupGuidelines"])
     /\ Len(d["details.pickupGuidelines"]) >= 15
  THEN {} ELSE {"details.pickupGuidelines"}

\* the transfer vehicle refinement accepting a one-character name
TransferVehicleRefine_OneChar(d) ==
  IF d["type"] = "Private"
  THEN IF TruthyStr(d["vehicle"]) /\ Len(d["vehicle"]) >= 1
       THEN {} ELSE {"vehicle"}
  ELSE {}

\* transferSchema.refine #7: vehicle of a Private transfer
TransferVehicleRefine(d) ==
  IF d["type"] = "Private"
  THEN IF TruthyStr(d["vehicle"]) /\ Len(d["vehicle"]) >= 2
       THEN {} ELSE {"vehicle"}
  ELSE {}

Forms == {"tour", "edit", "transfer"}

FieldIssues(f, d) ==
  CASE f = "tour" -> TourFieldIssues(d)
    [] f = "edit" -> EditFieldIssues(d)
    [] f = "transfer" -> TransferFieldIssues(d)

\* a refinement chain that stops at its first failing refinement
RefineIssues_FirstOnly(f, d) ==
  LET chain ==
        CASE f = "tour" ->
               <<NewPriceRefine(d), TourMaximumPersonRefine(d),
                 TourVehicleRefine(d)>>
          [] f = "edit" -> <<NewPriceRefine(d), TourMaximumPersonRefine(d)>>
          [] f = "transfer" ->
               <<NewPriceRefine(d), TransferRequiredRefine(d),
                 TransferMaximumPersonRefine(d), FromToRefine(d),
                 PickupLocationRefine(d), PickupGuidelinesRefine(d),
                 TransferVehicleRefine(d)>>
      failing == {i \in DOMAIN chain : chain[i] # {}}
  IN IF failing = {} THEN {}
     ELSE chain[CHOOSE i \in failing : \A j \in failing : i <= j]

RefineIssues(f, d) ==
  CASE f = "tour" ->
         NewPriceRefine(d) \cup TourMaximumPersonRefine(d)
           \cup TourVehicleRefine(d)
    [] f = "edit" -> NewPriceRefine(d) \cup TourMaximumPersonRefine(d)
    [] f = "transfer" ->
         NewPriceRefine(d) \cup TransferRequiredRefine(d)
           \cup TransferMaximumPersonRefine(d) \cup FromToRefine(d)
           \cup PickupLocationRefine(d) \cup PickupGuidelinesRefine(d)
           \cup TransferVehicleRefine(d)

\* the z.object part aborted: ZodEffects returns INVALID without refining
Aborted(f, d) == \E i \in FieldIssues(f, d) : i.fatal

\* a resolver that refines even when the z.object part aborted
ErrorPaths_AlwaysRefine(f, d) ==
  {i.path : i \in FieldIssues(f, d)} \cup RefineIssues(f, d)

\* a refinement of the chain raises a TypeError: data.from.toLowerCase()
\* and data.to.toLowerCase() on a value that is not a string
RefineRaises(f, d) ==
  /\ ~Aborted(f, d)
  /\ f = "transfer"
  /\ (d["from"] = Undefined \/ d["to"] = Undefined)

\* zodResolver: the paths of formState.errors for draft d under schema f
ErrorPaths(f, d) ==
  LET issues == FieldIssues(f, d)
  IN {i.path : i \in issues}
       \cup (IF \E i \in issues : i.fatal THEN {} ELSE RefineIssues(f, d))

\* the schema pass: trigger() / handleSubmit find no error
SchemaValid(f, d) == ErrorPaths(f, d) = {}

\* the completeness filter without trim()
ValidFaqs_Untrimmed(d) ==
  SelectSeq(d["details.faq"], LAMBDA q : q.question # <<>> /\ q.answer # <<>>)

\* the completeness filter keeping an entry with either part non-blank
ValidFaqs_EitherPart(d) ==
  SelectSeq(d["details.faq"],
            LAMBDA q : Trim(q.question) # <<>> \/ Trim(q.answer) # <<>>)

\* the completeness pass of the callers:
\* faq.filter((faq) => faq.question.trim() && faq.answer.trim())
ValidFaqs(d) ==
  SelectSeq(d["details.faq"],
            LAMBDA q : Trim(q.question) # <<>> /\ Trim(q.answer) # <<>>)

----------------------------------------------------------------------------
(* Drafts *)

TitleOk == Rep("a", 10) \o <<" ", "B", "!", " ">> \o Rep("b", 10)
TitleShort == Rep("x", 19)
ImageUrl == <<"u", "r", "l">>
TagOk == <<"F", "u", "l", "l">>
DescOk == Rep("y", 60)
Wrap(s) == <<"<", "p", ">">> \o s \o <<"<", "/", "p", ">">>
CarName == <<"c", "a", "r">>
TimeOk == <<"0", "8", ":", "0", "0">>
\* the slug the backend stores for the tour under edit
StoredSlug == <<"a", "b", "c">>
Faq(q, a) == [question |-> q, answer |-> a]
FaqOk == Faq(<<"Q">>, <<"A">>)
\* the entry of defaultValues and of append({question: "", answer: ""})
FaqEmpty == Faq(<<>>, <<>>)

\* useForm defaultValues of the tour creation form, after the mount effects
\* (type is not private: vehicle "" and seatCapacity undefined); the
\* registered text inputs without a default read "" from the DOM
TourDefaults ==
  [title |-> <<>>, slug |-> <<>>, image |-> Undefined, tags |-> <<>>,
   description |-> <<>>, type |-> "co-tour", duration |-> <<>>,
   period |-> "Half-Day", bookedCount |-> Num(0), oldPrice |-> Num(0),
   newPrice |-> Num(0), childPrice |-> Num(0), minimumPerson |-> Num(1),
   maximumPerson |-> Num(10), vehicle |-> <<>>,
   seatCapacity |-> UndefinedNum, departureTimes |-> <<TimeOk>>,
   label |-> "None"]
  @@ ("details.about" :> <<>> @@ "details.itinerary" :> <<>>
      @@ "details.pickupLocation" :> <<>>
      @@ "details.pickupGuidelines" :> <<>> @@ "details.note" :> <<>>
      @@ "details.faq" :> <<FaqEmpty>>)

\* useForm defaultValues of the transfer creation form, after the mount
\* effects (type is not Private: vehicle "")
TransferDefaults ==
  [title |-> <<>>, slug |-> <<>>, image |-> Undefined, tags |-> <<>>,
   description |-> <<>>, type |-> "Van", vehicle |-> <<>>, from |-> <<>>,
   to |-> <<>>, duration |-> <<>>, bookedCount |-> Num(0),
   rating |-> Num(0), reviewCount |-> Num(0), oldPrice |-> Num(0),
   newPrice |-> Num(0), childPrice |-> Num(0), minimumPerson |-> Num(1),
   maximumPerson |-> Num(10), seatCapacity |-> Num(4),
   departureTimes |-> <<TimeOk>>, label |-> "None"]
  @@ ("details.about" :> <<>> @@ "details.itinerary" :> <<>>
      @@ "details.dropOffLocation" :> <<>>
      @@ "details.pickupOption" :> "admin"
      @@ "details.pickupLocation" :> <<>>
      @@ "details.pickupGuidelines" :> <<>> @@ "details.note" :> <<>>
      @@ "details.faq" :> <<FaqEmpty>>)

\* a tour creation draft after the user has filled in every section
TourFilled ==
  [title |-> TitleOk, slug |-> GenerateSlug(TitleOk), image |-> ImageUrl,
   tags |-> <<TagOk>>,
   description |-> DescOk, type |-> "co-tour", duration |-> <<"4">>,
   period |-> "Half-Day", bookedCount |-> Num(0), oldPrice |-> Num(1),
   newPrice |-> Num(0), childPrice |-> Num(0), minimumPerson |-> Num(1),
   maximumPerson |-> Num(2), vehicle |-> <<>>,
   seatCapacity |-> UndefinedNum, departureTimes |-> <<TimeOk>>,
   label |-> "None"]
  @@ ("details.about" :> Wrap(Rep("a", 100))
      @@ "details.itinerary" :> Wrap(Rep("a", 100))
      @@ "details.pickupLocation" :> Wrap(Rep("a", 10))
      @@ "details.pickupGuidelines" :> <<>>
      @@ "details.note" :> Wrap(Rep("a", 10))
      @@ "details.faq" :> <<FaqOk>>)

\* a tour stored by the backend, as fetchTourData resets the edit form to it
EditFilled ==
  [title |-> TitleOk, slug |-> StoredSlug, image |-> ImageUrl,
   tags |-> <<TagOk>>,
   description |-> DescOk, type |-> "co-tour", duration |-> <<"4">>,
   period |-> "Half-Day", bookedCount |-> Num(0), rating |-> Num(0),
   reviewCount |-> Num(0), oldPrice |-> Num(1), newPrice |-> Num(0),
   childPrice |-> Num(0), minimumPerson |-> Num(1),
   maximumPerson |-> Num(2), vehicle |-> <<>>, seatCapacity |-> Num(4),
   departureTimes |-> <<TimeOk>>, label |-> "None"]
  @@ ("details.about" :> Rep("a", 100)
      @@ "details.itinerary" :> Rep("a", 50)
      @@ "details.pickupLocations" :> <<TagOk>>
      @@ "details.pickupGuidelines" :> <<>>
      @@ "details.notes" :> <<TagOk>>
      @@ "details.includes" :> <<TagOk>>
      @@ "details.faq" :> <<FaqOk>>)

\* a transfer creation draft after the user has filled in every section
TransferFilled ==
  [title |-> TitleOk, slug |-> GenerateSlug(TitleOk), image |-> ImageUrl,
   tags |-> <<TagOk>>,
   description |-> DescOk, type |-> "Van", vehicle |-> <<>>,
   from |-> <<"A", "B">>, to |-> <<"C", "a">>, duration |-> <<"4">>,
   bookedCount |-> Num(0), rating |-> Num(0), reviewCount |-> Num(0),
   oldPrice |-> Num(1), newPrice |-> Num(0), childPrice |-> Num(0),
   minimumPerson |-> Num(1), maximumPerson |-> Num(2),
   seatCapacity |-> Num(4), departureTimes |-> <<TimeOk>>,
   label |-> "None"]
  @@ ("details.about" :> Wrap(Rep("a", 100))
      @@ "details.itinerary" :> Wrap(Rep("a", 100))
      @@ "details.dropOffLocation" :> <<>>
      @@ "details.pickupOption" :> "admin"
      @@ "details.pickupLocation" :> Rep("a", 10)
      @@ "details.pickupGuidelines" :> Rep("a", 15)
      @@ "details.note" :> Wrap(Rep("a", 10))
      @@ "details.faq" :> <<FaqOk>>)

Defaults(f) ==
  CASE f = "tour" -> TourDefaults
    [] f = "transfer" -> TransferDefaults
    [] f = "edit" -> EditFilled

Filled(f) ==
  CASE f = "tour" -> TourFilled
    [] f = "transfer" -> TransferFilled
    [] f = "edit" -> EditFilled

PrivateType(f) == IF f = "transfer" THEN "Private" ELSE "private"

\* the filled-in drafts, person-based and private
BaseDrafts(f) ==
  {Filled(f),
   [Filled(f) EXCEPT !["type"] = PrivateType(f), !["vehicle"] = CarName,
                     !["seatCapacity"] = Num(4)]}

Numbers == {Num(0), Num(1), Num(2), Num(-1), NaN, UndefinedNum}
Texts(lo) == {<<>>, Undefined, Rep("a", lo), Rep("a", lo - 1),
              Wrap(Rep("a", lo)), Wrap(Rep("a", lo - 1))}
FaqLists == {<<FaqOk>>, <<>>, <<FaqEmpty>>, <<Faq(<<"Q">>, <<" ">>)>>,
             <<Faq(<<" ">>, <<"A">>)>>, <<FaqOk, FaqEmpty>>}
StringLists == {<<TagOk>>, <<>>, << <<>> >>}

\* the values a validator input may take in field p of a draft of form f
FieldValues(f, p) ==
  CASE p = "title" -> {TitleOk, TitleShort, Rep("x", 101), Undefined}
    [] p = "slug" -> {<<>>, Undefined, <<"a", "-", "b">>, <<"A">>}
    [] p = "image" -> {ImageUrl, <<>>, Undefined}
    [] p \in {"tags", "details.pickupLocations", "details.notes",
              "details.includes"} -> StringLists
    [] p = "description" ->
         {DescOk, Rep("y", 49), Rep("y", 111), Rep("y", 201)}
    [] p = "type" ->
         IF f = "transfer" THEN TransferTypes ELSE TourTypes
    [] p = "duration" -> {<<"4">>, <<>>}
    [] p = "period" -> Periods
    [] p = "label" -> TourLabels \cup EditLabels
    [] p \in {"bookedCount", "rating", "reviewCount", "oldPrice", "newPrice",
              "childPrice", "minimumPerson", "maximumPerson",
              "seatCapacity"} -> Numbers \cup {Num(6)}
    [] p = "vehicle" -> {<<>>, Undefined, <<" ">>, <<"c">>, CarName}
    [] p \in {"from", "to"} ->
         {<<"A", "B">>, <<"a", "b">>, <<"C", "a">>, <<"a">>}
    [] p = "departureTimes" -> {<<TimeOk>>, <<>>}
    [] p = "details.about" -> Texts(100)
    [] p = "details.itinerary" -> Texts(100) \cup Texts(50)
    [] p = "details.pickupLocation" -> Texts(10)
    [] p = "details.dropOffLocation" -> {<<>>, Undefined, CarName}
    [] p = "details.pickupGuidelines" -> Texts(15)
    [] p = "details.note" -> Texts(10)
    [] p = "details.pickupOption" -> PickupOptions
    [] p = "details.faq" -> FaqLists

\* the controls the user of the model operates in form f
Controls(f) ==
  CASE f = "tour" -> {"title", "type", "vehicle", "newPrice", "details.faq"}
    [] f = "transfer" -> {"title", "type", "vehicle", "rating", "details.faq"}
    [] f = "edit" -> {"title", "type", "vehicle", "newPrice", "details.faq"}

\* the values the control of field p can put in the form
InputValues(f, p) ==
  CASE p = "title" -> {TitleOk, TitleShort}
    [] p = "type" -> IF f = "transfer" THEN TransferTypes ELSE TourTypes
    [] p = "vehicle" -> {<<>>, CarName}
    [] p = "newPrice" -> {Num(0), Num(2)}
    [] p = "rating" -> {Num(0), NaN}
    [] p = "details.faq" ->
         {<<FaqOk>>, <<Faq(<<"Q">>, <<" ">>)>>, <<FaqOk, FaqEmpty>>}
           \cup (IF f = "edit" THEN {<<>>} ELSE {})

----------------------------------------------------------------------------
(* The pages *)

VARIABLES
  form,               \* which page this is: "tour", "edit" or "transfer"
  draft,              \* the values of the react-hook-form form
  errors,             \* the paths of the errors zodResolver returned (SpecV)
  fresh,              \* errors is the resolver's result for this draft (SpecV)
  hasValidated,       \* useState hasValidated
  validationSuccess,  \* useState validationSuccess
  isSubmitting,       \* useState isSubmitting
  uploadedImageUrl,   \* useState uploadedImageUrl
  imageUploading,     \* useState imageUploading
  slugLoading,        \* useState slugLoading
  slugTimer,          \* the title the pending slug timer closed over
  pendingRuns,        \* handleShowErrors runs waiting in their delay
  inflight,           \* create/update requests awaiting their response
  navigated,          \* router.push left the page
  edits,              \* fields overwritten so far (SpecV)
  uploads,            \* image uploads awaiting their response (SpecImage)
  selectedPackage,    \* reviews page: useState selectedPackage
  reviews,            \* reviews page: the package whose reviews useState
                      \* reviews holds, NoPackage for the empty list
  isLoadingReviews,   \* reviews page: useState isLoadingReviews
  deleteConfirmation, \* reviews page: deleteConfirmation.reviewId is set
  reviewRequests,     \* reviews page: GET requests in flight, per package
  deleteRequests      \* reviews page: DELETE requests in flight, per
                      \* package their handler closed over

vars == <<form, draft, errors, fresh, hasValidated, validationSuccess,
          isSubmitting, uploadedImageUrl, imageUploading, slugLoading,
          slugTimer, pendingRuns, inflight, navigated, edits, uploads,
          selectedPackage, reviews, isLoadingReviews, deleteConfirmation,
          reviewRequests, deleteRequests>>

\* the state of the reviews page
reviewVars == <<selectedPackage, reviews, isLoadingReviews,
                deleteConfirmation, reviewRequests, deleteRequests>>

\* the state of the tour and transfer pages
pageVars == <<form, draft, errors, fresh, hasValidated, validationSuccess,
              isSubmitting, uploadedImageUrl, imageUploading, slugLoading,
              slugTimer, pendingRuns, inflight, navigated, edits, uploads>>

\* the packages the reviews page lists
Packages == {"p1", "p2"}
\* selectedPackage is null; reviews is []
NoPackage == "none"

\* the reviews page on mount
InitReviewVars ==
  /\ selectedPackage = NoPackage
  /\ reviews = NoPackage
  /\ isLoadingReviews = FALSE
  /\ deleteConfirmation = FALSE
  /\ reviewRequests = [p \in Packages |-> 0]
  /\ deleteRequests = [p \in Packages |-> 0]

NoTimer == Undefined
\* the vehicles the page fetched from /api/vehicles
Vehicles == {[name |-> CarName, seats |-> 4]}

\* dependency list of the "reset validation state" effect
ResetDeps(f) ==
  CASE f = "tour" ->
         {"title", "type", "description", "image", "tags", "duration",
          "bookedCount", "oldPrice", "newPrice", "childPrice",
          "minimumPerson", "maximumPerson", "vehicle", "period", "label",
          "slug", "departureTimes", "details.about", "details.itinerary",
          "details.pickupLocation", "details.note", "details.faq",
          "details.pickupGuidelines"}
    [] f = "transfer" ->
         {"title", "type", "description", "image", "tags", "duration",
          "bookedCount", "oldPrice", "newPrice", "childPrice", "label",
          "slug", "from", "to", "details.pickupOption", "minimumPerson",
          "maximumPerson", "departureTimes", "details.about",
          "details.itinerary", "details.pickupLocation",
          "details.pickupGuidelines", "details.note", "details.faq"}
    [] f = "edit" -> {}

\* the effects keyed on watchType, run when the type has changed
TypeEffects(f, d) ==
  CASE f = "tour" ->
         IF d["type"] # "private"
         THEN [d EXCEPT !["vehicle"] = <<>>, !["seatCapacity"] = UndefinedNum]
         ELSE [d EXCEPT !["minimumPerson"] = Num(1)]
    [] f = "transfer" ->
         IF d["type"] # "Private"
         THEN [d EXCEPT !["vehicle"] = <<>>]
         ELSE [d EXCEPT !["minimumPerson"] = Num(1)]
    [] f = "edit" -> d

\* the vehicle <select>: seatCapacity follows the vehicle that was found
VehicleSelect(d, v) ==
  IF \E x \in Vehicles : x.name = v
  THEN [d EXCEPT !["vehicle"] = v,
                 !["seatCapacity"] =
                    Num((CHOOSE x \in Vehicles : x.name = v).seats)]
  ELSE [d EXCEPT !["vehicle"] = v]

\* the title is empty as the auto-generate slug effect sees it
TitleBlank(d) == ~TruthyStr(d["title"]) \/ Trim(d["title"]) = <<>>

\* the draft after the synchronous part of the auto-generate slug effect
SlugEffectDraft(f, d) ==
  IF f # "edit" /\ TitleBlank(d) THEN [d EXCEPT !["slug"] = <<>>] ELSE d

\* the form values went from d to d2: the values after the effects keyed on
\* watchType and watchTitle have written the form
AfterEffects(f, d, d2) ==
  LET d3 == IF d2["type"] # d["type"] THEN TypeEffects(f, d2) ELSE d2
  IN IF d3["title"] # d["title"] THEN SlugEffectDraft(f, d3) ELSE d3

\* an effect whose cleanup does not cancel the pending timer
SlugEffect_KeepsTimer(d, d4) ==
  IF d4["title"] # d["title"] /\ slugTimer = NoTimer /\ ~TitleBlank(d4)
  THEN /\ slugTimer' = d4["title"]
       /\ slugLoading' = TRUE
  ELSE UNCHANGED <<slugTimer, slugLoading>>

\* the auto-generate slug effect: a changed title clears the pending timer
\* and, unless the title is blank, starts a new one
SlugEffect(d, d4) ==
  IF d4["title"] # d["title"]
  THEN IF TitleBlank(d4)
       THEN /\ slugTimer' = NoTimer
            /\ slugLoading' = IF form = "edit" THEN slugLoading ELSE FALSE
       ELSE /\ slugTimer' = d4["title"]
            /\ slugLoading' = TRUE
  ELSE UNCHANGED <<slugTimer, slugLoading>>

\* the "reset validation state" effect: runs when a dependency has changed
ResetFires(d, d4) == hasValidated /\ \E q \in ResetDeps(form) : d4[q] # d[q]

ResetEffect(d, d4) ==
  /\ hasValidated' = IF ResetFires(d, d4) THEN FALSE ELSE hasValidated
  /\ validationSuccess' =
       IF ResetFires(d, d4) THEN FALSE ELSE validationSuccess

\* controls that are rendered only for one kind of package
Shown(f, d, p) ==
  /\ p = "vehicle" => d["type"] = PrivateType(f)
  /\ (f \in {"tour", "transfer"}
        /\ p \in {"childPrice", "minimumPerson", "maximumPerson"})
       => d["type"] # PrivateType(f)
  /\ (f = "transfer" /\ p = "details.pickupLocation")
       => d["details.pickupOption"] = "admin"

\* the user changes the control of field p to v
ChangeField(p, v) ==
  /\ ~navigated
  /\ Shown(form, draft, p)
  /\ v # draft[p]
  /\ LET d2 == IF p = "vehicle" THEN VehicleSelect(draft, v)
               ELSE [draft EXCEPT ![p] = v]
         d4 == AfterEffects(form, draft, d2)
     IN /\ draft' = d4
        /\ SlugEffect(draft, d4)
        /\ ResetEffect(draft, d4)
  /\ UNCHANGED <<form, reviewVars, uploads, errors, fresh, isSubmitting, uploadedImageUrl,
                 imageUploading, pendingRuns, inflight, navigated, edits>>

\* the 500 ms timer of the auto-generate slug effect fires
SlugTimerFires ==
  /\ ~navigated
  /\ slugTimer # NoTimer
  /\ LET d4 == [draft EXCEPT !["slug"] = GenerateSlug(slugTimer)]
     IN /\ draft' = d4
        /\ ResetEffect(draft, d4)
  /\ slugTimer' = NoTimer
  /\ slugLoading' = FALSE
  /\ UNCHANGED <<form, reviewVars, uploads, errors, fresh, isSubmitting, uploadedImageUrl,
                 imageUploading, pendingRuns, inflight, navigated, edits>>

\* the completeness pass of handleShowErrors: validFaqs.length === 0 fails
FaqComplete(d) == Len(ValidFaqs(d)) # 0

\* a validation run that succeeds only the first time
ValidationRun_FirstOnly ==
  /\ validationSuccess' =
       (SchemaValid(form, draft) /\ FaqComplete(draft) /\ ~hasValidated)
  /\ hasValidated' = TRUE

\* handleShowErrors from trigger() on: the schema pass, then the
\* completeness pass over the current values (the errors the resolver
\* returns are only displayed)
ValidationRun ==
  /\ validationSuccess' = (SchemaValid(form, draft) /\ FaqComplete(draft))
  /\ hasValidated' = TRUE

\* tour creation form: handleShowErrors up to its 100 ms delay
ValidateStart ==
  /\ ~navigated
  /\ form = "tour"
  /\ pendingRuns < MaxRuns
  /\ validationSuccess' = FALSE
  /\ pendingRuns' = pendingRuns + 1
  /\ UNCHANGED <<form, reviewVars, uploads, draft, errors, fresh, hasValidated, isSubmitting,
                 uploadedImageUrl, imageUploading, slugLoading, slugTimer,
                 inflight, navigated, edits>>

\* tour creation form: handleShowErrors after its delay
ValidateFinish ==
  /\ ~navigated
  /\ form = "tour"
  /\ pendingRuns > 0
  /\ ValidationRun
  /\ pendingRuns' = pendingRuns - 1
  /\ UNCHANGED <<form, reviewVars, uploads, draft, errors, fresh, isSubmitting, uploadedImageUrl,
                 imageUploading, slugLoading, slugTimer, inflight, navigated,
                 edits>>

\* transfer creation form: handleShowErrors
Validate ==
  /\ ~navigated
  /\ form = "transfer"
  /\ ValidationRun
  /\ UNCHANGED <<form, reviewVars, uploads, draft, errors, fresh, isSubmitting, uploadedImageUrl,
                 imageUploading, slugLoading, slugTimer, pendingRuns,
                 inflight, navigated, edits>>

\* onSubmit(data), up to the request it sends; the transfer form returns
\* early without an uploaded image, through its finally block
OnSubmit ==
  IF form = "transfer" /\ ~TruthyStr(uploadedImageUrl)
  THEN /\ isSubmitting' = FALSE
       /\ UNCHANGED inflight
  ELSE /\ inflight < MaxInflight
       /\ isSubmitting' = TRUE
       /\ inflight' = inflight + 1

\* the Create button is disabled
SaveDisabled == isSubmitting \/ ~hasValidated \/ ~validationSuccess

\* handleSaveTour / handleSaveTransfer: the prompt to validate first, or
\* onSubmit(getValues())
HandleSave ==
  IF ~hasValidated \/ ~validationSuccess
  THEN UNCHANGED <<isSubmitting, inflight>>
  ELSE OnSubmit

\* a click on the Create Tour / Create Transfer button
SaveClick ==
  /\ ~navigated
  /\ form \in {"tour", "transfer"}
  /\ ~SaveDisabled
  /\ HandleSave
  /\ UNCHANGED <<form, reviewVars, uploads, draft, errors, fresh, hasValidated, validationSuccess,
                 uploadedImageUrl, imageUploading, slugLoading, slugTimer,
                 pendingRuns, navigated, edits>>

\* a submit event on the <form>: handleSubmit(onSubmit) runs the resolver
\* and calls onSubmit with the values when it finds no error.  In the edit
\* form the event comes from the Update Tour button, disabled while
\* isSubmitting.
FormSubmit ==
  /\ ~navigated
  /\ form = "edit" => ~isSubmitting
  /\ IF SchemaValid(form, draft)
     THEN OnSubmit
     ELSE UNCHANGED <<isSubmitting, inflight>>
  /\ UNCHANGED <<form, reviewVars, uploads, draft, errors, fresh, hasValidated, validationSuccess,
                 uploadedImageUrl, imageUploading, slugLoading, slugTimer,
                 pendingRuns, navigated, edits>>

\* an onSubmit whose failure path leaves isSubmitting alone
Response_NoFinally(ok) ==
  /\ ~navigated
  /\ inflight > 0
  /\ inflight' = inflight - 1
  /\ isSubmitting' = IF ok THEN FALSE ELSE isSubmitting
  /\ navigated' = ok
  /\ UNCHANGED <<form, reviewVars, uploads, draft, errors, fresh, hasValidated,
                 validationSuccess, uploadedImageUrl, imageUploading,
                 slugLoading, slugTimer, pendingRuns, edits>>

\* the backend answers a create/update request: router.push on success,
\* and setIsSubmitting(false) in the finally block either way
Response(ok) ==
  /\ ~navigated
  /\ inflight > 0
  /\ inflight' = inflight - 1
  /\ isSubmitting' = FALSE
  /\ navigated' = ok
  /\ UNCHANGED <<form, reviewVars, uploads, draft, errors, fresh, hasValidated, validationSuccess,
                 uploadedImageUrl, imageUploading, slugLoading, slugTimer,
                 pendingRuns, edits>>

\* defaultValues as reset(defaultValues) installs them
ResetValues(f) ==
  IF f = "tour" THEN [TourDefaults EXCEPT !["seatCapacity"] = Num(4)]
  ELSE TransferDefaults

\* handleClearForm (tour) / confirmClearForm (transfer)
ClearForm ==
  /\ ~navigated
  /\ form \in {"tour", "transfer"}
  /\ LET d4 == AfterEffects(form, draft, ResetValues(form))
     IN /\ draft' = d4
        /\ SlugEffect(draft, d4)
  /\ hasValidated' = FALSE
  /\ validationSuccess' = FALSE
  /\ uploadedImageUrl' = <<>>
  /\ imageUploading' = IF form = "transfer" THEN FALSE ELSE imageUploading
  /\ UNCHANGED <<form, reviewVars, uploads, errors, fresh, isSubmitting, pendingRuns, inflight,
                 navigated, edits>>

Init ==
  /\ form \in Forms
  /\ draft \in {Defaults(form), Filled(form)}
  /\ errors = {}
  /\ fresh = FALSE
  /\ hasValidated = FALSE
  /\ validationSuccess = FALSE
  /\ isSubmitting = FALSE
  /\ uploadedImageUrl =
       IF form = "edit" \/ ~TruthyStr(draft["image"]) THEN <<>> ELSE ImageUrl
  /\ imageUploading = FALSE
  /\ slugLoading = (form = "edit")
  /\ slugTimer = IF form = "edit" THEN draft["title"] ELSE NoTimer
  /\ pendingRuns = 0
  /\ inflight = 0
  /\ navigated = FALSE
  /\ edits = 0
  /\ uploads = 0
  /\ InitReviewVars

Next ==
  \/ \E p \in Controls(form) : \E v \in InputValues(form, p) : ChangeField(p, v)
  \/ SlugTimerFires
  \/ ValidateStart
  \/ ValidateFinish
  \/ Validate
  \/ SaveClick
  \/ FormSubmit
  \/ \E ok \in BOOLEAN : Response(ok)
  \/ ClearForm

Spec == Init /\ [][Next]_vars

----------------------------------------------------------------------------
(* The validator on its own: a filled-in draft, up to MaxEdits fields of   *)
(* it overwritten with any value of the field's type, then the resolver.    *)

SetField(p, v) ==
  /\ edits < MaxEdits
  /\ v # draft[p]
  /\ draft' = [draft EXCEPT ![p] = v]
  /\ fresh' = FALSE
  /\ edits' = edits + 1
  /\ UNCHANGED <<form, reviewVars, uploads, errors, hasValidated, validationSuccess, isSubmitting,
                 uploadedImageUrl, imageUploading, slugLoading, slugTimer,
                 pendingRuns, inflight, navigated>>

\* zodResolver(schema) applied to the draft
Resolve ==
  /\ ~fresh
  /\ errors' = ErrorPaths(form, draft)
  /\ fresh' = TRUE
  /\ UNCHANGED <<form, reviewVars, uploads, draft, hasValidated, validationSuccess, isSubmitting,
                 uploadedImageUrl, imageUploading, slugLoading, slugTimer,
                 pendingRuns, inflight, navigated, edits>>

InitV ==
  /\ form \in Forms
  /\ draft \in BaseDrafts(form)
  /\ errors = {}
  /\ fresh = FALSE
  /\ hasValidated = FALSE
  /\ validationSuccess = FALSE
  /\ isSubmitting = FALSE
  /\ uploadedImageUrl = <<>>
  /\ imageUploading = FALSE
  /\ slugLoading = FALSE
  /\ slugTimer = NoTimer
  /\ pendingRuns = 0
  /\ inflight = 0
  /\ navigated = FALSE
  /\ edits = 0
  /\ uploads = 0
  /\ InitReviewVars

NextV ==
  \/ \E p \in DOMAIN draft : \E v \in FieldValues(form, p) : SetField(p, v)
  \/ Resolve

SpecV == InitV /\ [][NextV]_vars

----------------------------------------------------------------------------
(* The title input and the auto-generate slug effect on their own: the     *)
(* user types into the title, character by character, and the timer fires.  *)

\* longest title typed into an empty title input
MaxTitleLen == 4

\* the keys the user of the model presses in the title input
TitleChars == {"a", "A", " ", "-", "!"}

\* the user types c at the end of the title
TypeChar(c) ==
  /\ Len(draft["title"]) < MaxTitleLen
  /\ ChangeField("title", Append(draft["title"], c))

\* the user deletes the last character of the title
Backspace ==
  /\ draft["title"] # <<>>
  /\ ChangeField("title", SubSeq(draft["title"], 1, Len(draft["title"]) - 1))

\* the user selects the whole title and deletes it
ClearTitle == ChangeField("title", <<>>)

InitSlug ==
  /\ Init
  /\ draft = Defaults(form)

NextSlug ==
  \/ \E c \in TitleChars : TypeChar(c)
  \/ Backspace
  \/ ClearTitle
  \/ SlugTimerFires
  \/ ClearForm

SpecSlug == InitSlug /\ [][NextSlug]_vars

\* a pending timer stops being pending: its callback runs (SlugTimerFires)
\* or the effect's cleanup clears it
SlugTimerEnds == slugTimer # NoTimer /\ slugTimer' = NoTimer

\* setTimeout callbacks are not starved: a timer does not stay pending for
\* ever.  The only steps that end a timer without running its callback are
\* the cleanups of a title change, so this is the weak fairness of
\* SlugTimerFires.
FairSpecSlug == SpecSlug /\ WF_slugTimer(SlugTimerEnds)

----------------------------------------------------------------------------
(* The tour edit page when the user leaves the title alone *)

InitEdit ==
  /\ Init
  /\ form = "edit"

NextEdit ==
  \/ \E p \in Controls(form) \ {"title"} :
       \E v \in InputValues(form, p) : ChangeField(p, v)
  \/ SlugTimerFires
  \/ FormSubmit
  \/ \E ok \in BOOLEAN : Response(ok)

SpecEdit == InitEdit /\ [][NextEdit]_vars

----------------------------------------------------------------------------
(* The image upload of the transfer creation page *)

\* the URLs the upload endpoint answers with
UploadedUrls == {ImageUrl, <<"u", "r", "l", "2">>}

\* handleImageUpload up to its await: an image file under 5 MB was picked in
\* the file input, which is disabled while imageUploading
UploadStart ==
  /\ ~navigated
  /\ form = "transfer"
  /\ ~imageUploading
  /\ uploads < MaxUploads
  /\ imageUploading' = TRUE
  /\ uploads' = uploads + 1
  /\ UNCHANGED <<form, reviewVars, draft, errors, fresh, hasValidated, validationSuccess,
                 isSubmitting, uploadedImageUrl, slugLoading, slugTimer,
                 pendingRuns, inflight, navigated, edits>>

\* handleImageUpload after its await: the upload answered with url u, or
\* failed (the catch block)
UploadResponse(ok, u) ==
  /\ ~navigated
  /\ uploads > 0
  /\ uploads' = uploads - 1
  /\ IF ok
     THEN LET d2 == [draft EXCEPT !["image"] = u]
          IN /\ uploadedImageUrl' = u
             /\ draft' = d2
             /\ ResetEffect(draft, d2)
     ELSE /\ uploadedImageUrl' = <<>>
          /\ UNCHANGED <<draft, hasValidated, validationSuccess>>
  /\ imageUploading' = FALSE
  /\ UNCHANGED <<form, reviewVars, errors, fresh, isSubmitting, slugLoading, slugTimer,
                 pendingRuns, inflight, navigated, edits>>

InitImage ==
  /\ Init
  /\ form = "transfer"

NextImage ==
  \/ UploadStart
  \/ \E ok \in BOOLEAN : \E u \in UploadedUrls : UploadResponse(ok, u)
  \/ ClearForm
  \/ Validate
  \/ SaveClick
  \/ \E ok \in BOOLEAN : Response(ok)

SpecImage == InitImage /\ [][NextImage]_vars

----------------------------------------------------------------------------
(* The request body of the transfer creation page *)

\* the fields of a transfer draft that hold a number
NumberKeys ==
  {"bookedCount", "rating", "reviewCount", "oldPrice", "newPrice",
   "childPrice", "minimumPerson", "maximumPerson", "seatCapacity"}

\* the fields of a transfer payload that hold an enum value or a list
EnumOrListKeys ==
  {"type", "label", "details.pickupOption", "tags", "departureTimes",
   "times", "details.faq"}

\* s || ""
OrEmpty(s) == IF TruthyStr(s) THEN s ELSE <<>>

\* a pickup option that is never taken for user-defined
PickupLocationsSent_AdminOnly(d) == OrEmpty(d["details.pickupLocation"])

\* details.pickupLocations of transferData
PickupLocationsSent(d) ==
  IF d["details.pickupOption"] = "admin"
  THEN OrEmpty(d["details.pickupLocation"])
  ELSE OrEmpty(d["details.pickupGuidelines"])

\* details.pickupGuidelines of transferData
PickupGuidelinesSent(d) ==
  IF d["details.pickupOption"] = "admin"
  THEN OrEmpty(d["details.pickupGuidelines"])
  ELSE Undefined

\* finalTransferData of onSubmit: the form values with the uploaded image,
\* the complete FAQs and the pickup fields, description and departureTimes
\* renamed, details.pickupLocation dropped
FinalTransferData(d, url) ==
  LET rest == [k \in DOMAIN d \ {"description", "departureTimes",
                                 "details.pickupLocation",
                                 "details.pickupGuidelines"} |->
                 CASE k = "image" -> url
                   [] k = "details.faq" -> ValidFaqs(d)
                   [] k = "vehicle" -> OrEmpty(d["vehicle"])
                   [] k = "seatCapacity" ->
                        IF TruthyNum(d["seatCapacity"]) THEN d["seatCapacity"]
                        ELSE UndefinedNum
                   [] OTHER -> d[k]]
  IN ("details.pickupLocations" :> PickupLocationsSent(d)
      @@ "details.pickupGuidelines" :> PickupGuidelinesSent(d)
      @@ "details.dropOffLocations" :> OrEmpty(d["details.dropOffLocation"])
      @@ "desc" :> d["description"]
      @@ "times" :> d["departureTimes"])
     @@ rest

\* JSON.stringify leaves out the key k of a property whose value v is
\* undefined
LeftOut(k, v) ==
  IF k \in NumberKeys THEN v = UndefinedNum
  ELSE IF k \in EnumOrListKeys THEN FALSE
  ELSE v = Undefined

\* the body of the POST request: JSON.stringify(finalTransferData)
TransferPayload(d, url) ==
  LET o == FinalTransferData(d, url)
  IN [k \in {x \in DOMAIN o : ~LeftOut(x, o[x])} |-> o[k]]

\* the controls of the pickup section, and the text the rich text editors
\* give
PayloadControls ==
  {"details.pickupOption", "details.pickupLocation",
   "details.pickupGuidelines"}

PayloadInputs(p) ==
  IF p = "details.pickupOption" THEN PickupOptions
  ELSE FieldValues("transfer", p) \ {Undefined}

InitPayload ==
  /\ Init
  /\ form = "transfer"

NextPayload ==
  \/ \E p \in PayloadControls : \E v \in PayloadInputs(p) : ChangeField(p, v)
  \/ Validate
  \/ SaveClick
  \/ FormSubmit
  \/ \E ok \in BOOLEAN : Response(ok)

SpecPayload == InitPayload /\ [][NextPayload]_vars

----------------------------------------------------------------------------
(* Submission on its own: validation, the Create and Update buttons, submit *)
(* events, responses, and what changes uploadedImageUrl                     *)

NextSubmit ==
  \/ ValidateStart
  \/ ValidateFinish
  \/ Validate
  \/ SaveClick
  \/ FormSubmit
  \/ \E ok \in BOOLEAN : Response(ok)
  \/ UploadStart
  \/ \E ok \in BOOLEAN : \E u \in UploadedUrls : UploadResponse(ok, u)
  \/ ClearForm

SpecSubmit == Init /\ [][NextSubmit]_vars

\* every request is answered or fails: the fetch promise settles
FairSpecSubmit == SpecSubmit /\ WF_vars(\E ok \in BOOLEAN : Response(ok))

----------------------------------------------------------------------------
(* The reviews page *)

\* requests of the bag r in flight
InFlight(r) == r["p1"] + r["p2"]

\* fetchPackageReviews(pkg) up to its await
FetchStart(pkg) ==
  /\ isLoadingReviews' = TRUE
  /\ selectedPackage' = pkg
  /\ reviewRequests' = [reviewRequests EXCEPT ![pkg] = @ + 1]

\* a click on the card of package pkg, in the list shown while no package
\* is selected
PackageClick(pkg) ==
  /\ selectedPackage = NoPackage
  /\ InFlight(reviewRequests) < MaxReviewRequests
  /\ FetchStart(pkg)
  /\ UNCHANGED <<reviews, deleteConfirmation, deleteRequests, pageVars>>

\* fetchPackageReviews(pkg) after its await: data.success or a failure,
\* then the finally block
ReviewsResponse(pkg, ok) ==
  /\ reviewRequests[pkg] > 0
  /\ reviewRequests' = [reviewRequests EXCEPT ![pkg] = @ - 1]
  /\ reviews' = IF ok THEN pkg ELSE reviews
  /\ isLoadingReviews' = FALSE
  /\ UNCHANGED <<selectedPackage, deleteConfirmation, deleteRequests,
                 pageVars>>

\* handleBackToPackages
HandleBackToPackages ==
  /\ selectedPackage # NoPackage
  /\ ~deleteConfirmation
  /\ selectedPackage' = NoPackage
  /\ reviews' = NoPackage
  /\ UNCHANGED <<isLoadingReviews, deleteConfirmation, reviewRequests,
                 deleteRequests, pageVars>>

\* the delete button of a review in the list shown for the selected package
OpenDeleteConfirmation ==
  /\ selectedPackage # NoPackage
  /\ ~isLoadingReviews
  /\ reviews # NoPackage
  /\ ~deleteConfirmation
  /\ deleteConfirmation' = TRUE
  /\ UNCHANGED <<selectedPackage, reviews, isLoadingReviews, reviewRequests,
                 deleteRequests, pageVars>>

\* the Cancel button of the confirmation dialog
CancelDelete ==
  /\ deleteConfirmation
  /\ deleteConfirmation' = FALSE
  /\ UNCHANGED <<selectedPackage, reviews, isLoadingReviews, reviewRequests,
                 deleteRequests, pageVars>>

\* handleDeleteReview up to its await; the handler has closed over the
\* selectedPackage of the render it belongs to
HandleDeleteReview ==
  /\ deleteConfirmation
  /\ selectedPackage # NoPackage
  /\ InFlight(deleteRequests) < MaxDeleteRequests
  /\ deleteRequests' = [deleteRequests EXCEPT ![selectedPackage] = @ + 1]
  /\ UNCHANGED <<selectedPackage, reviews, isLoadingReviews,
                 deleteConfirmation, reviewRequests, pageVars>>

\* handleDeleteReview after its await: on success it fetches the reviews of
\* the package it closed over and closes the dialog
DeleteResponse(pkg, ok) ==
  /\ deleteRequests[pkg] > 0
  /\ deleteRequests' = [deleteRequests EXCEPT ![pkg] = @ - 1]
  /\ IF ok
     THEN /\ InFlight(reviewRequests) < MaxReviewRequests
          /\ FetchStart(pkg)
          /\ deleteConfirmation' = FALSE
     ELSE UNCHANGED <<isLoadingReviews, selectedPackage, reviewRequests,
                      deleteConfirmation>>
  /\ UNCHANGED <<reviews, pageVars>>

\* the tour and transfer pages are not shown
InitReviews ==
  /\ Init
  /\ form = "tour"
  /\ draft = TourDefaults

NextReviews ==
  \/ \E pkg \in Packages : PackageClick(pkg)
  \/ \E pkg \in Packages : \E ok \in BOOLEAN : ReviewsResponse(pkg, ok)
  \/ HandleBackToPackages
  \/ OpenDeleteConfirmation
  \/ CancelDelete
  \/ HandleDeleteReview
  \/ \E pkg \in Packages : \E ok \in BOOLEAN : DeleteResponse(pkg, ok)

SpecReviews == InitReviews /\ [][NextReviews]_vars

----------------------------------------------------------------------------
(* Properties of the pages (specification Spec) *)

\* the two creation forms
CreationForms == {"tour", "transfer"}

\* this step sends a create/update request carrying the current draft
SendsRequest == inflight' > inflight

\* some details.faq entry has a question and an answer that are both
\* non-blank after trimming
HasCompleteFaq(d) ==
  \E i \in DOMAIN d["details.faq"] :
    /\ Trim(d["details.faq"][i].question) # <<>>
    /\ Trim(d["details.faq"][i].answer) # <<>>

\* C1: in the creation forms a create request is sent only when the form is
\* Valid (hasValidated and validationSuccess) at the moment of the attempt,
\* on every path that invokes onSubmit, the form's submit handler included.
C1_OnlyFromValid ==
  [][(form \in CreationForms /\ SendsRequest)
       => (hasValidated /\ validationSuccess)]_vars

\* C2: in the creation forms, a change of any schema-validated field while
\* the form is Valid or Invalid (hasValidated) moves it back to Dirty.
C2_ChangeResets ==
  [][(form \in CreationForms /\ hasValidated
        /\ \E p \in DOMAIN draft : draft'[p] # draft[p])
       => (~hasValidated' /\ ~validationSuccess')]_vars

\* C3: under every interleaving of field changes, Validate and Save
\* actions, the draft that a click on the Create button sends passes the
\* schema pass and the FAQ-completeness pass at the moment it is sent.
C3_ClickedDraftValid ==
  [][(SaveClick /\ SendsRequest)
       => (ErrorPaths(form, draft) = {} /\ HasCompleteFaq(draft))]_vars

\* C4: a validation run of a creation form ends in Valid if and only if the
\* schema pass reports no error and some details.faq entry has a non-blank
\* question and answer; in every other case it ends in Invalid.
C4_RunResult ==
  [][(ValidateFinish \/ Validate)
       => /\ hasValidated'
          /\ validationSuccess'
               <=> (ErrorPaths(form, draft) = {} /\ HasCompleteFaq(draft))]_vars

\* a run has ended Invalid on the completeness pass alone
C4_Witness ==
  /\ form \in CreationForms
  /\ hasValidated /\ ~validationSuccess /\ pendingRuns = 0
  /\ ErrorPaths(form, draft) = {}
  /\ ~HasCompleteFaq(draft)

\* C5: on the tour edit path, as on every submission path, a request is
\* sent only for a draft in which some details.faq entry has a non-blank
\* question and a non-blank answer.
C5_EditSendsFaq ==
  [][(form = "edit" /\ SendsRequest) => HasCompleteFaq(draft)]_vars

----------------------------------------------------------------------------
(* Properties of the schemas (specification SpecV) *)

\* both prices are numbers and newPrice > oldPrice
NewAboveOld(d) ==
  /\ IsNumber(d["newPrice"]) /\ IsNumber(d["oldPrice"])
  /\ d["newPrice"].n > d["oldPrice"].n

\* C6 as stated: whenever newPrice > oldPrice the error set has newPrice.
C6_NewPriceAlways ==
  (fresh /\ NewAboveOld(draft)) => "newPrice" \in errors

\* C6: for all drafts of the three schemas with newPrice > oldPrice,
\* validation fails; the error set has an error on newPrice whenever no
\* field of the draft fails with a type error (a missing or NaN number, a
\* missing string, a value outside its enum).
C6_NewPrice ==
  (fresh /\ NewAboveOld(draft))
    => /\ errors # {}
       /\ ~Aborted(form, draft) => "newPrice" \in errors

\* the resolver has reported newPrice for a draft with newPrice > oldPrice
C6_Witness ==
  /\ fresh /\ NewAboveOld(draft)
  /\ ~Aborted(form, draft)
  /\ "newPrice" \in errors

\* a co-tour draft whose person bounds are numbers with maximum <= minimum
CoTourMaxNotAbove(f, d) ==
  /\ f \in {"tour", "edit"} /\ d["type"] = "co-tour"
  /\ IsNumber(d["maximumPerson"]) /\ IsNumber(d["minimumPerson"])
  /\ d["maximumPerson"].n <= d["minimumPerson"].n

\* for a private tour the rule produces no error: a maximumPerson that
\* satisfies its own field rule is not in the error set
PrivateMaxUnchecked ==
  (fresh /\ form \in {"tour", "edit"} /\ draft["type"] = "private"
     /\ IsNumber(draft["maximumPerson"]) /\ draft["maximumPerson"].n >= 1)
    => "maximumPerson" \notin errors

\* C7 as stated: co-tour with maximumPerson <= minimumPerson always has an
\* error on maximumPerson; private never has one from this rule.
C7_MaximumPersonAlways ==
  /\ (fresh /\ CoTourMaxNotAbove(form, draft)) => "maximumPerson" \in errors
  /\ PrivateMaxUnchecked

\* C7: for all tour drafts with type co-tour and maximumPerson <=
\* minimumPerson, validation fails, with an error on maximumPerson whenever
\* no field fails with a type error; for type private the rule never
\* produces an error, whatever maximumPerson and minimumPerson are.
C7_MaximumPerson ==
  /\ (fresh /\ CoTourMaxNotAbove(form, draft))
       => /\ errors # {}
          /\ ~Aborted(form, draft) => "maximumPerson" \in errors
  /\ PrivateMaxUnchecked

\* the rule alone has put maximumPerson in the error set
C7_Witness ==
  /\ fresh /\ CoTourMaxNotAbove(form, draft)
  /\ draft["maximumPerson"].n >= 1
  /\ errors = {"maximumPerson"}

\* the vehicle is absent, empty or whitespace-only
VehicleBlank(d) ==
  d["vehicle"] = Undefined \/ \A i \in DOMAIN d["vehicle"] : d["vehicle"][i] = " "

\* C8: for all private tour drafts with a blank vehicle and no type error
\* in another field, validation fails with an error on vehicle, in the
\* creation schema and in the edit schema.
C8_VehicleRequired ==
  (fresh /\ form \in {"tour", "edit"} /\ draft["type"] = "private"
     /\ VehicleBlank(draft) /\ ~Aborted(form, draft))
    => "vehicle" \in errors

\* the from and to of a transfer draft are strings equal up to case
SameFromTo(f, d) ==
  /\ f = "transfer"
  /\ d["from"] # Undefined /\ d["to"] # Undefined
  /\ ToLowerCase(d["from"]) = ToLowerCase(d["to"])

\* C9 as stated: from and to equal up to case always give an error on to.
C9_FromToAlways ==
  (fresh /\ SameFromTo(form, draft)) => "to" \in errors

\* C9: for all transfer drafts whose from and to are equal under
\* case-insensitive comparison, validation fails, with an error on the path
\* to whenever no field fails with a type error.
C9_FromTo ==
  (fresh /\ SameFromTo(form, draft))
    => /\ errors # {}
       /\ ~Aborted(form, draft) => "to" \in errors

\* from and to differ only in case and the only error is on to
C9_Witness ==
  /\ fresh /\ SameFromTo(form, draft)
  /\ draft["from"] # draft["to"]
  /\ errors = {"to"}

\* C10: a transfer draft of a type other than Private is accepted only if
\* childPrice, minimumPerson and maximumPerson are all present and
\* maximumPerson > minimumPerson; a Private draft is never rejected by the
\* required-fields rule (path type) or the maximumPerson rule.
C10_NonPrivate ==
  /\ (fresh /\ form = "transfer" /\ draft["type"] # "Private" /\ errors = {})
       => /\ IsNumber(draft["childPrice"])
          /\ IsNumber(draft["minimumPerson"])
          /\ IsNumber(draft["maximumPerson"])
          /\ draft["maximumPerson"].n > draft["minimumPerson"].n
  /\ (fresh /\ form = "transfer" /\ draft["type"] = "Private")
       => /\ "type" \notin errors
          /\ (IsNumber(draft["maximumPerson"])
                /\ draft["maximumPerson"].n >= 1)
               => "maximumPerson" \notin errors

\* a Private draft is accepted with maximumPerson not above minimumPerson
C10_Witness ==
  /\ fresh /\ form = "transfer" /\ draft["type"] = "Private"
  /\ IsNumber(draft["maximumPerson"]) /\ IsNumber(draft["minimumPerson"])
  /\ draft["maximumPerson"].n <= draft["minimumPerson"].n
  /\ errors = {}

\* a Private transfer draft whose vehicle is empty or shorter than 2
\* characters and whose other fields are all valid: with a vehicle name in
\* place of its own the draft is accepted
PrivateVehicleShort(f, d) ==
  /\ f = "transfer" /\ d["type"] = "Private"
  /\ d["vehicle"] # Undefined /\ Len(d["vehicle"]) < 2
  /\ ErrorPaths(f, [d EXCEPT !["vehicle"] = CarName]) = {}

\* C11: for every transfer draft with type Private whose vehicle is empty
\* or shorter than 2 characters and whose other fields are all valid, the
\* error set has exactly one entry, on the path vehicle.
C11_VehicleOnly ==
  (fresh /\ PrivateVehicleShort(form, draft)) => errors = {"vehicle"}

\* the resolver has rejected a one-character vehicle of a Private transfer
C11_Witness ==
  /\ fresh /\ PrivateVehicleShort(form, draft)
  /\ Len(draft["vehicle"]) = 1
  /\ errors = {"vehicle"}

\* C12: in every schema details.about is accepted only if its length
\* without markup tags is at least 100: 99 plain characters wrapped in
\* tags fail.
C12_AboutIgnoresMarkup ==
  (fresh /\ draft["details.about"] = Wrap(Rep("a", 99)))
    => "details.about" \in errors

\* C13: for every transfer draft with details.pickupOption = admin,
\* validation succeeds only if details.pickupLocation has at least 10
\* characters without its markup: 9 plain characters wrapped in tags are
\* rejected.
C13_PickupLocationIgnoresMarkup ==
  (fresh /\ form = "transfer" /\ draft["details.pickupOption"] = "admin"
     /\ draft["details.pickupLocation"] = Wrap(Rep("a", 9)))
    => errors # {}

\* a text (a string, not an absent value) of at least lo characters
IsText(v, lo) == v # Undefined /\ Len(v) >= lo

\* a rich text of at least lo characters once its markup is removed
IsRichText(v, lo) == v # Undefined /\ Len(stripHtmlTags(v)) >= lo

\* a number of at least lo
IsAtLeast(v, lo) == IsNumber(v) /\ v.n >= lo

\* the per-field constraints of the data model for a tour draft, slug and
\* details.pickupGuidelines apart, and the cross-field invariants 1-3
TourModelOk(d) ==
  /\ IsText(d["title"], 20) /\ Len(d["title"]) <= 100
  /\ IsText(d["image"], 1)
  /\ Len(d["tags"]) >= 1 /\ \A i \in DOMAIN d["tags"] : Len(d["tags"][i]) >= 1
  /\ IsText(d["description"], 50) /\ Len(d["description"]) <= 110
  /\ IsText(d["duration"], 1)
  /\ d["type"] \in {"co-tour", "private"}
  /\ d["period"] \in {"Half-Day", "Full-Day"}
  /\ d["label"] \in {"Recommended", "Popular", "Best Value", "Best seller",
                     "None"}
  /\ IsAtLeast(d["bookedCount"], 0)
  /\ IsAtLeast(d["oldPrice"], 0) /\ IsAtLeast(d["newPrice"], 0)
  /\ IsAtLeast(d["childPrice"], 0)
  /\ IsAtLeast(d["minimumPerson"], 1) /\ IsAtLeast(d["maximumPerson"], 1)
  /\ d["seatCapacity"] # NaN
  /\ Len(d["departureTimes"]) >= 1
  /\ IsRichText(d["details.about"], 100)
  /\ IsRichText(d["details.itinerary"], 100)
  /\ IsRichText(d["details.pickupLocation"], 10)
  /\ IsRichText(d["details.note"], 10)
  /\ \A i \in DOMAIN d["details.faq"] :
       /\ IsText(d["details.faq"][i].question, 1)
       /\ IsText(d["details.faq"][i].answer, 1)
  /\ d["newPrice"].n <= d["oldPrice"].n
  /\ d["type"] # "private" => d["maximumPerson"].n > d["minimumPerson"].n
  /\ d["type"] = "private" => ~VehicleBlank(d)

ViolatedPaths(f, d) ==
  {p \in {"newPrice"} : d["newPrice"].n > d["oldPrice"].n}
    \cup (IF f = "tour"
          THEN {p \in {"maximumPerson"} :
                  d["type"] = "co-tour"
                    /\ d["maximumPerson"].n <= d["minimumPerson"].n}
                 \cup {p \in {"vehicle"} :
                         d["type"] = "private" /\ VehicleBlank(d)}
          ELSE {p \in {"type"} :
                  d["type"] # "Private"
                    /\ UndefinedNum \in {d["childPrice"], d["minimumPerson"],
                                         d["maximumPerson"]}}
                 \cup {p \in {"maximumPerson"} :
                         /\ d["type"] # "Private"
                         /\ IsNumber(d["maximumPerson"])
                         /\ IsNumber(d["minimumPerson"])
                         /\ d["maximumPerson"].n <= d["minimumPerson"].n}
                 \cup {p \in {"to"} :
                         ToLowerCase(d["from"]) = ToLowerCase(d["to"])}
                 \cup {p \in {"details.pickupGuidelines"} :
                         ~IsText(d["details.pickupGuidelines"], 15)}
                 \cup {p \in {"details.pickupLocation"} :
                         d["details.pickupOption"] = "admin"
                           /\ ~IsText(d["details.pickupLocation"], 10)}
                 \cup {p \in {"vehicle"} :
                         d["type"] = "Private" /\ ~IsText(d["vehicle"], 2)})

FieldPaths(f, d) == {i.path : i \in FieldIssues(f, d)}

\* C16 as stated: when some per-field rule fails (a length, range, regex,
\* enum or type rule) every entry of the error set is on the path of a
\* failed per-field rule: none comes from a cross-field invariant.
C16_NoCrossFieldAfterFieldError ==
  (fresh /\ form \in {"tour", "transfer"} /\ FieldIssues(form, draft) # {})
    => errors \subseteq FieldPaths(form, draft)

\* C16: when some field fails a type or enum rule (a missing value, NaN, a
\* value outside its enum) the error set has no entry produced by a
\* cross-field invariant; a failed length, range, regex or text rule does
\* not stop the cross-field refinements, and the entries of the violated
\* invariants are reported with it.
C16_CrossFieldUnlessTypeError ==
  (fresh /\ form \in {"tour", "transfer"} /\ FieldIssues(form, draft) # {})
    => errors = IF Aborted(form, draft)
                THEN FieldPaths(form, draft)
                ELSE FieldPaths(form, draft) \cup ViolatedPaths(form, draft)

\* a length rule has failed and an invariant is reported beside it
C16_Witness ==
  /\ fresh /\ form \in {"tour", "transfer"}
  /\ FieldIssues(form, draft) # {}
  /\ ~Aborted(form, draft)
  /\ \E p \in errors : p \notin FieldPaths(form, draft)

----------------------------------------------------------------------------
(* Properties of the validation run and of Clear Form (specification Spec) *)

\* the schema pass accepts the draft and its only FAQ entry has a blank
\* answer
OnlyFaqBlankAnswer(f, d) ==
  /\ f \in CreationForms
  /\ ErrorPaths(f, d) = {}
  /\ Len(d["details.faq"]) = 1
  /\ Trim(d["details.faq"][1].answer) = <<>>

\* C17: for a schema-valid draft whose only FAQ entry has a blank answer
\* the schema pass returns an empty error set and the completeness check
\* marks the draft invalid: the validation run ends in Invalid.
C17_BlankAnswerInvalid ==
  [][((ValidateFinish \/ Validate) /\ OnlyFaqBlankAnswer(form, draft))
       => (hasValidated' /\ ~validationSuccess')]_vars

\* a run on such a draft has ended
C17_Witness ==
  /\ OnlyFaqBlankAnswer(form, draft)
  /\ draft["details.faq"][1].answer # <<>>
  /\ hasValidated /\ ~validationSuccess /\ pendingRuns = 0

\* the result a validation run gives on draft d
RunResult(f, d) == ErrorPaths(f, d) = {} /\ HasCompleteFaq(d)

C20_ClearGivesDefaults ==
  [][ClearForm =>
       /\ draft' = ResetValues(form)
       /\ uploadedImageUrl' = <<>>
       /\ ~hasValidated' /\ ~validationSuccess'
    ]_vars

----------------------------------------------------------------------------
(* Properties of the schemas, continued (specification SpecV) *)

\* the numeric fields of a draft
NumericFields ==
  {"bookedCount", "oldPrice", "newPrice", "childPrice", "minimumPerson",
   "maximumPerson", "seatCapacity"}

----------------------------------------------------------------------------
(* Properties of the runs and requests in flight (specification Spec) *)

\* C21: in the creation forms at most one validation run is in flight at
\* any time: a Validate action issued while an earlier run has not yet
\* completed does not start a second, overlapping run.
C21_OneRunInFlight == pendingRuns <= 1

----------------------------------------------------------------------------
(* Properties of the auto-generated slug (specifications SpecSlug and      *)
(* FairSpecSlug)                                                            *)

\* s has no leading hyphen, no trailing hyphen and no two hyphens in a row
NoStrayHyphen(s) ==
  /\ s # <<>> => (s[1] # "-" /\ s[Len(s)] # "-")
  /\ \A i \in 1..(Len(s) - 1) : ~(s[i] = "-" /\ s[i + 1] = "-")

\* C22: for every title the auto-generated slug matches ^[a-z0-9-]*$, has
\* no leading or trailing hyphen and no two consecutive hyphens, and passes
\* the slug rule of the schema.
C22_SlugWellFormed ==
  [][SlugTimerFires =>
       /\ MatchesSlugRegex(draft'["slug"])
       /\ NoStrayHyphen(draft'["slug"])
       /\ ZSlug("slug", draft'["slug"]) = {}
    ]_vars

\* the timer has fired for a title with a space and a hyphen in a row
C22_Witness ==
  /\ draft["title"] = <<"A", " ", "-", "a">>
  /\ draft["slug"] = <<"a", "-", "a">>
  /\ slugTimer = NoTimer

\* the slug the creation forms hold for title t once the effect has run
ExpectedSlug(t) == IF TitleBlank([title |-> t]) THEN <<>> ELSE GenerateSlug(t)

\* no timer is pending and the slug is the one generated from the title
SlugSettled ==
  /\ slugTimer = NoTimer
  /\ draft["slug"] = ExpectedSlug(draft["title"])

\* C23: in the creation forms a pending timer is always the one started for
\* the latest title (an earlier one was cancelled and never writes the
\* slug), and a pending timer leads to the slug generated from the latest
\* title (the empty slug for an empty or whitespace-only title).
C23_SlugFollowsTitle ==
  /\ [](form # "edit" /\ slugTimer # NoTimer => slugTimer = draft["title"])
  /\ (form # "edit" /\ slugTimer # NoTimer) ~> SlugSettled

\* the title was changed while a timer was pending, and the timer of the
\* latest title has fired
C23_Witness ==
  /\ form = "transfer"
  /\ draft["title"] = <<"a", " ", "A">>
  /\ draft["slug"] = <<"a", "-", "a">>
  /\ slugTimer = NoTimer

\* C24: in the three forms, whenever slugLoading becomes true it eventually
\* becomes false again, for every sequence of title changes, emptying the
\* title while a timer is pending included.
C24_LoadingEnds == slugLoading ~> ~slugLoading

----------------------------------------------------------------------------
(* Properties of the tour edit page (specification SpecEdit) *)

\* C25: when the edit form has loaded a tour and the user does not change
\* the title, the slug sent in the update request is the slug stored for
\* that tour.
C25_StoredSlugSent == [][SendsRequest => draft["slug"] = StoredSlug]_vars

----------------------------------------------------------------------------
(* Properties of the image upload (specification SpecImage) *)

\* the form's image field holds no URL
ImageEmpty(d) == ~TruthyStr(d["image"])

\* C26: in the transfer creation form, whenever no upload is in flight the
\* form's image field and uploadedImageUrl agree: both are empty, or both
\* are the same URL.
C26_ImageAgrees ==
  uploads = 0 =>
    \/ ImageEmpty(draft) /\ uploadedImageUrl = <<>>
    \/ draft["image"] = uploadedImageUrl

----------------------------------------------------------------------------
(* Properties of the create-transfer request (specification SpecPayload) *)

\* what the claim says of payload p sent for draft d
PayloadAsStated(d, p) ==
  /\ d["details.pickupOption"] = "admin" =>
       /\ p["details.pickupLocations"] = d["details.pickupLocation"]
       /\ "details.pickupGuidelines" \in DOMAIN p
       /\ p["details.pickupGuidelines"] = d["details.pickupGuidelines"]
  /\ d["details.pickupOption"] = "user" =>
       /\ p["details.pickupLocations"] = d["details.pickupGuidelines"]
       /\ "details.pickupGuidelines" \notin DOMAIN p
  /\ {"desc", "times"} \subseteq DOMAIN p
  /\ DOMAIN p \cap {"description", "departureTimes",
                    "details.pickupLocation"} = {}

\* C27: in the create-transfer request, with pickupOption admin the payload's
\* details.pickupLocations is the draft's pickupLocation and its
\* details.pickupGuidelines the draft's pickupGuidelines; with pickupOption
\* user, details.pickupLocations is the draft's pickupGuidelines and
\* details.pickupGuidelines is absent; either way the payload has desc and
\* times and no description, departureTimes or details.pickupLocation.
C27_PayloadShape ==
  [][SendsRequest =>
       PayloadAsStated(draft, TransferPayload(draft, uploadedImageUrl))]_vars

\* a request is awaiting its answer for a validated draft with the
\* user-defined pickup option
C27_Witness ==
  /\ inflight > 0 /\ isSubmitting
  /\ hasValidated /\ validationSuccess
  /\ draft["details.pickupOption"] = "user"

----------------------------------------------------------------------------
(* Properties of submission (specification FairSpecSubmit) *)

\* C29: every submission attempt in the three forms eventually leaves
\* isSubmitting false: after a successful request, after a failed one, and
\* when the transfer form returns early for want of an uploaded image.
C29_SubmittingEnds == isSubmitting ~> ~isSubmitting

\* the transfer form has been left after a successful request
C29_Witness ==
  /\ form = "transfer"
  /\ navigated /\ ~isSubmitting

----------------------------------------------------------------------------
(* Properties of the reviews page (specification SpecReviews) *)

\* C30: on the reviews page, once no request is in flight, the reviews list
\* shown for the selected package belongs to that package, whatever the
\* order in which the responses arrive.
C30_ReviewsOfSelected ==
  (/\ InFlight(reviewRequests) = 0
   /\ InFlight(deleteRequests) = 0
   /\ selectedPackage # NoPackage
   /\ reviews # NoPackage)
    => reviews = selectedPackage

====
